---------------------------- MODULE Spec2Model ----------------------------
(***************************************************************************)
(* A model of stockmetrics: src/data_collection.py (download_many,         *)
(* save_snapshot) and src/data_processing.py (latest_snapshot_for_ticker,  *)
(* clean_prices, load_and_clean_latest_raw, save_clean_prices,             *)
(* load_clean_prices_latest).                                              *)
(*                                                                         *)
(* Text (file names, column labels, CSV fields) is a sequence of           *)
(* one-character strings, so that strip/replace, glob matching, strftime   *)
(* and lexicographic sorting are computed character by character.          *)
(* A DataFrame is [columns, rows]; a cell is a tagged value: text, a       *)
(* number, a timestamp or a missing value (NaN / NaT / pd.NA).             *)
(***************************************************************************)
EXTENDS Integers, Sequences, FiniteSets, TLC

VARIABLES
    raw,        \* SpecClean: the DataFrame handed to clean_prices
    res1,       \* SpecClean: result of clean_prices(raw)
    res2,       \* SpecClean: result of clean_prices(res1.df)
    cpc,        \* SpecClean: "start" -> "cleaned" -> "recleaned"
    clock,      \* UTC wall clock, whole seconds after midnight
    rawDir,     \* raw_dir: file name -> CSV content (a table of text fields)
    written,    \* history: every snapshot file written, with the content given
    dm,         \* the running download_many call (its locals and position)
    ret,        \* the last call of the API and what it returned or raised
    procDir,    \* processed_dir: file name -> CSV content
    archived    \* history: the save_clean_prices calls so far, and the last one

vars == <<raw, res1, res2, cpc, clock, rawDir, written, dm, ret, procDir, archived>>

-----------------------------------------------------------------------------
(* Bounds of the model. *)

MaxRows == 2        \* rows of a raw table handed to clean_prices
MaxWrites == 3      \* save_snapshot / save_clean_prices calls in one run
MaxTickers == 2     \* length of a ticker sequence passed to the API
StartClock == 59    \* the clock at the start: 00:00:59 UTC
ClockSpan == 1      \* seconds the clock may advance during a run

-----------------------------------------------------------------------------
(* Text. *)

\* The characters the model uses, in code-point order (Python compares str
\* and Path by code point).
Alphabet ==
    <<" ", "-", ".", "/", "0", "1", "2", "3", "4", "5", "6", "7", "8", "9", ":",
      "A", "B", "C", "D", "E", "F", "G", "H", "I", "J", "K", "L", "M", "N", "O",
      "P", "Q", "R", "S", "T", "U", "V", "W", "X", "Y", "Z", "_",
      "a", "b", "c", "d", "e", "f", "g", "h", "i", "j", "k", "l", "m", "n", "o",
      "p", "q", "r", "s", "t", "u", "v", "w", "x", "y", "z">>

ord(c) == CHOOSE i \in 1..Len(Alphabet) : Alphabet[i] = c

\* s < t as Python compares strings: by the first differing character, a
\* proper prefix first.
RECURSIVE StrLess(_, _)
StrLess(s, t) ==
    IF t = <<>> THEN FALSE
    ELSE IF s = <<>> THEN TRUE
    ELSE IF Head(s) # Head(t) THEN ord(Head(s)) < ord(Head(t))
    ELSE StrLess(Tail(s), Tail(t))

Digits == <<"0", "1", "2", "3", "4", "5", "6", "7", "8", "9">>
IsDigit(c) == \E i \in 1..10 : Digits[i] = c
DigitVal(c) == (CHOOSE i \in 1..10 : Digits[i] = c) - 1
AllDigits(s) == s # <<>> /\ \A i \in 1..Len(s) : IsDigit(s[i])

\* int(s) for a string of decimal digits.
RECURSIVE ParseNat(_)
ParseNat(s) ==
    IF s = <<>> THEN 0
    ELSE 10 * ParseNat(SubSeq(s, 1, Len(s) - 1)) + DigitVal(s[Len(s)])

\* n printed in decimal, zero-padded to at least w digits (strftime's %Y, %m,
\* %d, %H, %M, %S are zero-padded to 4 or 2 digits).
RECURSIVE Decimal(_, _)
Decimal(n, w) ==
    IF n < 10 /\ w <= 1 THEN <<Digits[n + 1]>>
    ELSE Decimal(n \div 10, w - 1) \o <<Digits[(n % 10) + 1]>>

\* str.strip(): leading and trailing blanks removed.
RECURSIVE strip(_)
strip(s) ==
    IF s = <<>> THEN s
    ELSE IF Head(s) = " " THEN strip(Tail(s))
    ELSE IF s[Len(s)] = " " THEN strip(SubSeq(s, 1, Len(s) - 1))
    ELSE s

\* str.replace(" ", "_")
replace_space(s) == [i \in 1..Len(s) |-> IF s[i] = " " THEN "_" ELSE s[i]]

-----------------------------------------------------------------------------
(* Cells and DataFrames. *)

Str(s) == [t |-> "str", s |-> s, n |-> 0]
Num(n) == [t |-> "num", s |-> <<>>, n |-> n]
Ts(n) == [t |-> "date", s |-> <<>>, n |-> n]       \* a Timestamp, as yyyymmdd
NA == [t |-> "null", s |-> <<>>, n |-> 0]          \* NaN, NaT, pd.NA

IndexOf(seq, x) ==
    IF \E i \in 1..Len(seq) : seq[i] = x
    THEN CHOOSE i \in 1..Len(seq) : seq[i] = x /\ \A j \in 1..(i - 1) : seq[j] # x
    ELSE 0

HasColumn(df, c) == IndexOf(df.columns, c) # 0
Column(df, c) == [r \in 1..Len(df.rows) |-> df.rows[r][IndexOf(df.columns, c)]]

\* df[c] = values: replaces the column, or appends it as the last column.
SetColumn(df, c, values) ==
    IF HasColumn(df, c)
    THEN [df EXCEPT !.rows = [r \in 1..Len(df.rows) |->
                                [df.rows[r] EXCEPT ![IndexOf(df.columns, c)] = values[r]]]]
    ELSE [columns |-> Append(df.columns, c),
          rows |-> [r \in 1..Len(df.rows) |-> Append(df.rows[r], values[r])]]

EmptyDF == [columns |-> <<>>, rows |-> <<>>]
Return(v) == [ok |-> TRUE, exc |-> "", val |-> v]
Raise(e) == [ok |-> FALSE, exc |-> e, val |-> EmptyDF]

-----------------------------------------------------------------------------
(* Column labels. *)

cDate == <<"D", "a", "t", "e">>
cOpen == <<"O", "p", "e", "n">>
cHigh == <<"H", "i", "g", "h">>
cLow == <<"L", "o", "w">>
cClose == <<"C", "l", "o", "s", "e">>
cAdj_Close == <<"A", "d", "j", "_", "C", "l", "o", "s", "e">>
cVolume == <<"V", "o", "l", "u", "m", "e">>
cTicker == <<"T", "i", "c", "k", "e", "r">>

REQUIRED_COLUMNS == <<cDate, cOpen, cHigh, cLow, cClose, cAdj_Close, cVolume, cTicker>>
NUMERIC_COLUMNS == <<cOpen, cHigh, cLow, cClose, cAdj_Close, cVolume>>


-----------------------------------------------------------------------------
(* clean_prices and the pandas calls it makes. *)

IsLeap(y) == (y % 4 = 0 /\ y % 100 # 0) \/ y % 400 = 0
DaysInMonth(y, m) ==
    IF m = 2 THEN (IF IsLeap(y) THEN 29 ELSE 28)
    ELSE IF m \in {4, 6, 9, 11} THEN 30 ELSE 31

\* A date written yyyy-mm-dd, the form to_csv writes a Timestamp column in.
IsIsoDate(s) ==
    /\ Len(s) = 10
    /\ s[5] = "-" /\ s[8] = "-"
    /\ \A i \in {1, 2, 3, 4, 6, 7, 9, 10} : IsDigit(s[i])
    /\ LET y == ParseNat(SubSeq(s, 1, 4))
           m == ParseNat(SubSeq(s, 6, 7))
           d == ParseNat(SubSeq(s, 9, 10))
       IN y >= 1 /\ m \in 1..12 /\ d >= 1 /\ d <= DaysInMonth(y, m)

\* pd.to_datetime(x, errors="coerce") on one value: a Timestamp stays, text
\* that is a date becomes a Timestamp, anything else becomes NaT.
to_datetime(c) ==
    IF c.t = "date" THEN c
    ELSE IF c.t = "str" /\ IsIsoDate(c.s)
    THEN Ts(ParseNat(SubSeq(c.s, 1, 4)) * 10000 + ParseNat(SubSeq(c.s, 6, 7)) * 100
            + ParseNat(SubSeq(c.s, 9, 10)))
    ELSE NA

\* pd.to_numeric(x, errors="coerce") on one value: a number stays, text of
\* decimal digits becomes that number, anything else becomes NaN.
to_numeric(c) ==
    IF c.t = "num" THEN c
    ELSE IF c.t = "str" /\ AllDigits(c.s) THEN Num(ParseNat(c.s))
    ELSE NA

\* df.columns = [str(c).strip().replace(" ", "_") for c in df.columns]
normalise_columns(df) ==
    [df EXCEPT !.columns = [i \in 1..Len(df.columns) |-> replace_space(strip(df.columns[i]))]]

\* if "Adj_Close" not in df.columns and "Close" in df.columns: df["Adj_Close"] = df["Close"]
adj_close_lacks_fallback(df) == df
adj_close_fallback(df) ==
    IF ~HasColumn(df, cAdj_Close) /\ HasColumn(df, cClose)
    THEN SetColumn(df, cAdj_Close, Column(df, cClose))
    ELSE df

\* df["Date"] = pd.to_datetime(df["Date"], errors="coerce")
parse_dates(df) ==
    SetColumn(df, cDate, [r \in 1..Len(df.rows) |-> to_datetime(Column(df, cDate)[r])])

\* df.dropna(subset=["Date"])
dropna_date(df) ==
    [df EXCEPT !.rows = SelectSeq(df.rows, LAMBDA row : row[IndexOf(df.columns, cDate)] # NA)]

\* for col in [...]: if col in df.columns: df[col] = pd.to_numeric(df[col], errors="coerce")
RECURSIVE coerce_numerics(_, _)
coerce_numerics(df, i) ==
    IF i > Len(NUMERIC_COLUMNS) THEN df
    ELSE LET col == NUMERIC_COLUMNS[i]
             next == IF HasColumn(df, col)
                     THEN SetColumn(df, col,
                              [r \in 1..Len(df.rows) |-> to_numeric(Column(df, col)[r])])
                     ELSE df
         IN coerce_numerics(next, i + 1)

KeyOf(df, row) == <<row[IndexOf(df.columns, cTicker)], row[IndexOf(df.columns, cDate)]>>

\* df.drop_duplicates(subset=["Ticker", "Date"]): the first row of each key
\* is kept (keep="first"); missing values count as equal to each other.
keep_every_row(df) == df
drop_duplicates(df) ==
    [df EXCEPT !.rows =
        LET keep(r) == \A q \in 1..(r - 1) : KeyOf(df, df.rows[q]) # KeyOf(df, df.rows[r])
            RECURSIVE pick(_)
            pick(r) == IF r > Len(df.rows) THEN <<>>
                       ELSE (IF keep(r) THEN <<df.rows[r]>> ELSE <<>>) \o pick(r + 1)
        IN pick(1)]

\* The order sort_values uses on one column: text by code point, numbers and
\* timestamps by value, missing values last (na_position="last").
CellLess(a, b) ==
    IF a.t = "null" THEN FALSE
    ELSE IF b.t = "null" THEN TRUE
    ELSE IF a.t = "str" THEN StrLess(a.s, b.s)
    ELSE a.n < b.n

KeyLess(k1, k2) ==
    \/ CellLess(k1[1], k2[1])
    \/ k1[1] = k2[1] /\ CellLess(k1[2], k2[2])

\* df.sort_values(["Ticker", "Date"]): ascending; rows with equal keys keep
\* their order.
leave_unsorted(df) == df
sort_values(df) ==
    [df EXCEPT !.rows =
        LET RECURSIVE insert(_, _)
            insert(sorted, row) ==
                IF sorted = <<>> THEN <<row>>
                ELSE IF KeyLess(KeyOf(df, row), KeyOf(df, Head(sorted)))
                THEN <<row>> \o sorted
                ELSE <<Head(sorted)>> \o insert(Tail(sorted), row)
            RECURSIVE sort(_)
            sort(r) == IF r = 0 THEN <<>> ELSE insert(sort(r - 1), df.rows[r])
        IN sort(Len(df.rows))]

\* for col in REQUIRED_COLUMNS: if col not in df.columns: df[col] = pd.NA
RECURSIVE fill_missing(_, _)
fill_missing(df, i) ==
    IF i > Len(REQUIRED_COLUMNS) THEN df
    ELSE fill_missing(
             IF HasColumn(df, REQUIRED_COLUMNS[i]) THEN df
             ELSE SetColumn(df, REQUIRED_COLUMNS[i], [r \in 1..Len(df.rows) |-> NA]),
             i + 1)

\* df[REQUIRED_COLUMNS]
project_required(df) ==
    [columns |-> REQUIRED_COLUMNS,
     rows |-> [r \in 1..Len(df.rows) |->
                 [i \in 1..Len(REQUIRED_COLUMNS) |->
                     df.rows[r][IndexOf(df.columns, REQUIRED_COLUMNS[i])]]]]

\* clean_prices with the duplicates dropped before the dates are parsed.
clean_prices_dedup_first(df0) ==
    LET df == normalise_columns(df0)
    IN IF ~HasColumn(df, cTicker) THEN Raise("KeyError: Expected 'Ticker' column is missing.")
       ELSE IF ~HasColumn(df, cDate) THEN Raise("KeyError: Expected 'Date' column is missing.")
       ELSE Return(project_required(fill_missing(sort_values(
                coerce_numerics(dropna_date(parse_dates(drop_duplicates(
                    adj_close_fallback(df)))), 1)), 1)))

clean_prices(df0) ==
    LET df == normalise_columns(df0)
    IN IF ~HasColumn(df, cTicker) THEN Raise("KeyError: Expected 'Ticker' column is missing.")
       ELSE IF ~HasColumn(df, cDate) THEN Raise("KeyError: Expected 'Date' column is missing.")
       ELSE Return(project_required(fill_missing(sort_values(drop_duplicates(
                coerce_numerics(dropna_date(parse_dates(adj_close_fallback(df))), 1))), 1)))

-----------------------------------------------------------------------------
(* The raw tables clean_prices is tried on. *)

tSPY == <<"S", "P", "Y">>
tTSLA == <<"T", "S", "L", "A">>

h_yfinance ==
    <<cDate, cOpen, cHigh, cLow, cClose, <<"A", "d", "j", " ", "C", "l", "o", "s", "e">>,
      cVolume, cTicker>>
h_no_adj == <<cDate, cClose, cVolume, cTicker>>
h_padded == <<cTicker, <<" ", "D", "a", "t", "e", " ">>, cClose, <<"D", "i", "v">>>>
h_adj_only == <<cDate, cAdj_Close, cTicker>>
h_no_ticker == <<cDate, cClose>>
h_no_date == <<cTicker, cClose>>
RawHeaders == {h_yfinance, h_no_adj, h_padded, h_adj_only, h_no_ticker, h_no_date}

DateCells ==
    {Str(<<"2", "0", "2", "4", "-", "0", "1", "-", "0", "3">>),
     Str(<<"2", "0", "2", "4", "-", "0", "1", "-", "0", "2">>),
     Ts(20240102),
     Str(<<"2", "0", "2", "4", "-", "0", "2", "-", "3", "0">>)}     \* no such day
TickerCells == {Str(tTSLA), Str(tSPY), NA}
CloseCells == {Str(<<"0", "1", "2">>), Num(12), Str(<<"n", "o", "n", "e">>)}

\* One row under header h, from its date, ticker and close cells.
RawRow(h, d, t, c) ==
    [i \in 1..Len(h) |->
        LET name == replace_space(strip(h[i]))
        IN IF name = cDate THEN d
           ELSE IF name = cTicker THEN t
           ELSE IF name = cClose THEN c
           ELSE IF name = cAdj_Close THEN Str(<<"1", "1">>)
           ELSE IF name = cVolume THEN Str(<<"x">>)
           ELSE Num(7)]

RawRows(h) == {RawRow(h, d, t, c) : d \in DateCells, t \in TickerCells, c \in CloseCells}

RECURSIVE SeqsUpTo(_, _)
SeqsUpTo(S, n) ==
    IF n = 0 THEN {<<>>}
    ELSE LET shorter == SeqsUpTo(S, n - 1)
         IN shorter \cup {Append(q, x) : q \in {p \in shorter : Len(p) = n - 1}, x \in S}

-----------------------------------------------------------------------------
(* SpecClean: clean_prices applied to a raw table, then to its own output. *)

NoResult == Raise("")
Idle == [op |-> "none"]
NoSave == [path |-> <<>>, now |-> 0, df |-> EmptyDF]

InitOther ==
    /\ clock = StartClock
    /\ rawDir = <<>>
    /\ written = {}
    /\ dm = [pc |-> "idle"]
    /\ ret = Idle
    /\ procDir = <<>>
    /\ archived = [calls |-> {}, last |-> NoSave]

\* Every header, with every sequence of at most MaxRows of its rows.
InitClean ==
    /\ \E h \in RawHeaders, n \in 0..MaxRows :
        \E rows \in [1..n -> RawRows(h)] : raw = [columns |-> h, rows |-> rows]
    /\ res1 = NoResult
    /\ res2 = NoResult
    /\ cpc = "start"
    /\ InitOther

CleanOnce ==
    /\ cpc = "start"
    /\ res1' = clean_prices(raw)
    /\ cpc' = "cleaned"
    /\ UNCHANGED <<raw, res2, clock, rawDir, written, dm, ret, procDir, archived>>

CleanFailed ==
    /\ cpc = "cleaned"
    /\ ~res1.ok
    /\ cpc' = "raised"
    /\ UNCHANGED <<raw, res1, res2, clock, rawDir, written, dm, ret, procDir, archived>>

CleanAgain ==
    /\ cpc = "cleaned"
    /\ res1.ok
    /\ res2' = clean_prices(res1.val)
    /\ cpc' = "recleaned"
    /\ UNCHANGED <<raw, res1, clock, rawDir, written, dm, ret, procDir, archived>>

NextClean == CleanOnce \/ CleanFailed \/ CleanAgain

SpecClean == InitClean /\ [][NextClean]_vars

-----------------------------------------------------------------------------
(* CSV files: DataFrame.to_csv(path, index=False) and pd.read_csv. *)

\* A Timestamp at midnight is written yyyy-mm-dd.
FormatDate(n) ==
    Decimal(n \div 10000, 4) \o <<"-">> \o Decimal((n \div 100) % 100, 2)
        \o <<"-">> \o Decimal(n % 100, 2)

\* One field as to_csv writes it: text as it is, a number in decimal, a
\* missing value as the empty field (na_rep="").
csv_field(c) ==
    IF c.t = "str" THEN c.s
    ELSE IF c.t = "num" THEN Decimal(c.n, 1)
    ELSE IF c.t = "date" THEN FormatDate(c.n)
    ELSE <<>>

\* The file's content: the header line and one line of fields per row.
to_csv(df) ==
    [columns |-> df.columns,
     rows |-> [r \in 1..Len(df.rows) |->
                 [i \in 1..Len(df.columns) |-> csv_field(df.rows[r][i])]]]

\* Fields read_csv takes for a missing value (keep_default_na=True); the
\* ones over the model's alphabet.
NaValues ==
    {<<>>, <<"N", "A">>, <<"N", "a", "N">>, <<"n", "a", "n">>, <<"N", "U", "L", "L">>,
     <<"n", "u", "l", "l">>, <<"N", "/", "A">>, <<"n", "/", "a">>, <<"N", "o", "n", "e">>}

\* read_csv infers each column's type: missing-value fields become NaN; a
\* column whose other fields are all numbers is numeric; a parse_dates column
\* whose other fields are all dates holds Timestamps; else the text stays.
read_csv(csv, dates) ==
    LET present(i) == {r \in 1..Len(csv.rows) : csv.rows[r][i] \notin NaValues}
        numeric(i) == \A r \in present(i) : AllDigits(csv.rows[r][i])
        dated(i) == csv.columns[i] \in dates /\ \A r \in present(i) : IsIsoDate(csv.rows[r][i])
        cell(r, i) == IF r \notin present(i) THEN NA
                      ELSE IF numeric(i) THEN Num(ParseNat(csv.rows[r][i]))
                      ELSE IF dated(i) THEN to_datetime(Str(csv.rows[r][i]))
                      ELSE Str(csv.rows[r][i])
    IN [columns |-> csv.columns,
        rows |-> [r \in 1..Len(csv.rows) |-> [i \in 1..Len(csv.columns) |-> cell(r, i)]]]

\* A directory with file `path` written (created or overwritten).
WriteFile(dir, path, content) ==
    [f \in DOMAIN dir \cup {path} |-> IF f = path THEN content ELSE dir[f]]

-----------------------------------------------------------------------------
(* data_collection.py: download_stock_data, save_snapshot, download_many. *)

vV1 == <<"v", "1">>
DEFAULT_VERSION == vV1
vV1x == <<"v", "1", "_", "x">>
Tickers == {tSPY, tTSLA}
Versions == {vV1, vV1x}

\* What yf.download gives back for one request: a table (after reset_index:
\* a Date column and the price columns), nothing, or an exception.  The
\* provider is not trusted to send rows in order or without repeats.
yf_table(k) ==
    [columns |-> SubSeq(h_yfinance, 1, 7),
     rows |-> IF k = 1
              THEN <<<<Ts(20240102), Num(10), Num(12), Num(9), Num(11), Num(11), Num(500)>>,
                     <<Ts(20240103), Num(11), Num(13), Num(10), Num(12), Num(12), Num(600)>>>>
              ELSE <<<<Ts(20240104), Num(12), Num(14), Num(11), Num(13), Num(13), Num(700)>>,
                     <<Ts(20240103), Num(11), Num(13), Num(10), Num(12), Num(12), Num(600)>>,
                     <<Ts(20240104), Num(12), Num(14), Num(11), Num(14), Num(14), Num(800)>>>>]

Responses ==
    {[kind |-> "table", k |-> 1], [kind |-> "table", k |-> 2],
     [kind |-> "empty", k |-> 0], [kind |-> "error", k |-> 0]}

msgNoData ==
    <<"N", "o", " ", "d", "a", "t", "a", " ", "r", "e", "t", "u", "r", "n", "e", "d", " ",
      "f", "o", "r", " ", "t", "i", "c", "k", "e", "r", ":", " ">>
msgProvider == <<"t", "i", "m", "e", "d", " ", "o", "u", "t">>
msgDisk == <<"d", "i", "s", "k", " ", "f", "u", "l", "l">>

download_stock_data(ticker, resp) ==
    IF resp.kind = "error" THEN Raise(msgProvider)
    ELSE IF resp.kind = "empty" THEN Raise(msgNoData \o ticker)
    ELSE Return(SetColumn(yf_table(resp.k), cTicker,
                          [r \in 1..Len(yf_table(resp.k).rows) |-> Str(ticker)]))

\* datetime.now(timezone.utc).strftime("%Y%m%d_%H%M%S"); `now` counts the
\* seconds since 2024-01-05 00:00:00 UTC.
make_timestamp(now) ==
    Decimal(2024, 4) \o Decimal(1, 2) \o Decimal(5 + now \div 86400, 2) \o <<"_">>
        \o Decimal((now % 86400) \div 3600, 2) \o Decimal((now % 3600) \div 60, 2)
        \o Decimal(now % 60, 2)

sRaw == <<"_", "r", "a", "w", "_">>
sCsv == <<".", "c", "s", "v">>

snapshot_name(ticker, version, stamp) == ticker \o sRaw \o version \o <<"_">> \o stamp \o sCsv

\* save_snapshot: [ok, exc, val = the path, dir = out_dir afterwards].  The
\* write fails as a whole (nothing written) when the disk refuses it.
save_snapshot(dir, df, ticker, version, now, disk) ==
    LET file_path == snapshot_name(ticker, version, make_timestamp(now))
    IN IF disk = "full" THEN [ok |-> FALSE, exc |-> msgDisk, val |-> <<>>, dir |-> dir]
       ELSE [ok |-> TRUE, exc |-> <<>>, val |-> file_path,
             dir |-> WriteFile(dir, file_path, to_csv(df))]

sColon == <<":", " ">>

\* One pass of download_many's loop with the table appended before the save.
loop_body_appends_early(st, dir, now, resp, disk) ==
    LET ticker == st.tickers[st.i]
        got == download_stock_data(ticker, resp)
        saved == save_snapshot(dir, got.val, ticker, st.version, now, disk)
    IN IF ~got.ok
       THEN [st |-> [st EXCEPT !.failed = Append(@, ticker \o sColon \o got.exc), !.i = @ + 1],
             dir |-> dir, wrote |-> FALSE, escaped |-> FALSE]
       ELSE IF ~saved.ok
       THEN [st |-> [st EXCEPT !.all_data = Append(@, got.val),
                               !.failed = Append(@, ticker \o sColon \o saved.exc),
                               !.i = @ + 1],
             dir |-> dir, wrote |-> FALSE, escaped |-> FALSE]
       ELSE [st |-> [st EXCEPT !.all_data = Append(@, got.val),
                               !.saved_paths = Append(@, saved.val), !.i = @ + 1],
             dir |-> saved.dir, wrote |-> TRUE, escaped |-> FALSE]

\* One pass of download_many's loop (try: fetch, save, append, append;
\* except Exception: record the failure).  `escaped` says an exception left
\* the loop; every failure modelled here is an Exception, so none does.
loop_body(st, dir, now, resp, disk) ==
    LET ticker == st.tickers[st.i]
        got == download_stock_data(ticker, resp)
        saved == save_snapshot(dir, got.val, ticker, st.version, now, disk)
    IN IF ~got.ok
       THEN [st |-> [st EXCEPT !.failed = Append(@, ticker \o sColon \o got.exc), !.i = @ + 1],
             dir |-> dir, wrote |-> FALSE, escaped |-> FALSE]
       ELSE IF ~saved.ok
       THEN [st |-> [st EXCEPT !.failed = Append(@, ticker \o sColon \o saved.exc), !.i = @ + 1],
             dir |-> dir, wrote |-> FALSE, escaped |-> FALSE]
       ELSE [st |-> [st EXCEPT !.all_data = Append(@, got.val),
                               !.saved_paths = Append(@, saved.val), !.i = @ + 1],
             dir |-> saved.dir, wrote |-> TRUE, escaped |-> FALSE]

-----------------------------------------------------------------------------
(* data_processing.py: the snapshot locator and load_and_clean_latest_raw. *)

sStar == <<"*">>

\* fnmatch: does `name` match `pattern` ("*" matches any run of characters)?
RECURSIVE fnmatch(_, _)
fnmatch(name, pattern) ==
    IF pattern = <<>> THEN name = <<>>
    ELSE IF Head(pattern) = "*"
    THEN fnmatch(name, Tail(pattern)) \/ (name # <<>> /\ fnmatch(Tail(name), pattern))
    ELSE name # <<>> /\ Head(name) = Head(pattern) /\ fnmatch(Tail(name), Tail(pattern))

\* raw_dir.glob(pattern): the directory's entries, in the order the file
\* system lists them, that match.
glob(listing, pattern) == SelectSeq(listing, LAMBDA f : fnmatch(f, pattern))

\* sorted(paths): ascending by name.
RECURSIVE sorted(_)
sorted(paths) ==
    IF paths = <<>> THEN <<>>
    ELSE LET rest == sorted(SubSeq(paths, 1, Len(paths) - 1))
             p == paths[Len(paths)]
             RECURSIVE insert(_)
             insert(q) == IF q = <<>> THEN <<p>>
                          ELSE IF StrLess(p, Head(q)) THEN <<p>> \o q
                          ELSE <<Head(q)>> \o insert(Tail(q))
         IN insert(rest)

latest_snapshot_for_ticker(listing, ticker, version) ==
    LET pattern == ticker \o sRaw \o version \o <<"_">> \o sStar \o sCsv
        matches == sorted(glob(listing, pattern))
    IN IF matches = <<>> THEN Raise("FileNotFoundError") ELSE Return(matches[Len(matches)])

\* The keys of {t: ... for t in tickers}: each ticker once, in the order of
\* its first occurrence.
RECURSIVE dict_keys(_)
dict_keys(tickers) ==
    IF tickers = <<>> THEN <<>>
    ELSE LET init == dict_keys(SubSeq(tickers, 1, Len(tickers) - 1))
             t == tickers[Len(tickers)]
         IN IF IndexOf(init, t) # 0 THEN init ELSE Append(init, t)

\* build_latest_snapshot_map: the (ticker, path) items of the dict, or the
\* FileNotFoundError of the first ticker without a snapshot.
build_latest_snapshot_map(listing, tickers, version) ==
    IF \E i \in 1..Len(tickers) : ~latest_snapshot_for_ticker(listing, tickers[i], version).ok
    THEN Raise("FileNotFoundError")
    ELSE Return([i \in 1..Len(dict_keys(tickers)) |->
                    <<dict_keys(tickers)[i],
                      latest_snapshot_for_ticker(listing, dict_keys(tickers)[i], version).val>>])

\* pd.concat(frames, ignore_index=True) of frames with the same columns.
RECURSIVE concat(_)
concat(frames) ==
    IF Len(frames) = 1 THEN frames[1]
    ELSE [columns |-> frames[1].columns,
          rows |-> frames[1].rows \o concat(Tail(frames)).rows]

\* load_and_clean_latest_raw: [ok, exc, val = clean_df, file_map, frames].
\* `frames` (the cleaned table of each ticker, in file_map order) is kept to
\* state properties of the blocks clean_df is made of.
load_and_clean_latest_raw(dir, listing, tickers, version) ==
    LET file_map == build_latest_snapshot_map(listing, tickers, version)
        cleaned == [i \in 1..Len(file_map.val) |->
                       clean_prices(read_csv(dir[file_map.val[i][2]], {}))]
    IN IF ~file_map.ok
       THEN [ok |-> FALSE, exc |-> file_map.exc, val |-> EmptyDF, file_map |-> <<>>, frames |-> <<>>]
       ELSE IF \E i \in 1..Len(cleaned) : ~cleaned[i].ok
       THEN [ok |-> FALSE, exc |-> "KeyError", val |-> EmptyDF, file_map |-> <<>>, frames |-> <<>>]
       ELSE [ok |-> TRUE, exc |-> "", val |-> concat([i \in 1..Len(cleaned) |-> cleaned[i].val]),
             file_map |-> file_map.val, frames |-> [i \in 1..Len(cleaned) |-> cleaned[i].val]]

-----------------------------------------------------------------------------
(* SpecRaw: download_many runs against raw_dir while the clock advances. *)

TickerSeqs == SeqsUpTo(Tickers, MaxTickers) \ {<<>>}

\* What the environment does to one pass of the loop: the provider's answer
\* and, when there is a table to save, whether the disk takes the write.
Outcomes ==
    {<<[kind |-> "table", k |-> 1], "ok">>, <<[kind |-> "table", k |-> 2], "ok">>,
     <<[kind |-> "table", k |-> 1], "full">>,
     <<[kind |-> "empty", k |-> 0], "ok">>, <<[kind |-> "error", k |-> 0], "ok">>}

InitRaw ==
    /\ raw = EmptyDF
    /\ res1 = NoResult
    /\ res2 = NoResult
    /\ cpc = "start"
    /\ InitOther

\* The clock advances by a second.
Tick ==
    /\ clock < StartClock + ClockSpan
    /\ clock' = clock + 1
    /\ UNCHANGED <<raw, res1, res2, cpc, rawDir, written, dm, ret, procDir, archived>>

\* download_many(tickers, start, end, raw_dir, DEFAULT_VERSION) is called.
DownloadManyCall ==
    /\ dm.pc = "idle"
    /\ \E tickers \in TickerSeqs, version \in {DEFAULT_VERSION} :
        /\ Cardinality(written) + Len(tickers) <= MaxWrites
        /\ dm' = [pc |-> "loop", tickers |-> tickers, version |-> version, i |-> 1,
                  all_data |-> <<>>, failed |-> <<>>, saved_paths |-> <<>>, attempts |-> <<>>]
    /\ ret' = Idle
    /\ UNCHANGED <<raw, res1, res2, cpc, clock, rawDir, written, procDir, archived>>

\* One pass of the loop under outcome `o`.  `attempts` records what the
\* environment did, `written` every file written and the content given.
DownloadManyLoop ==
    /\ dm.pc = "loop"
    /\ dm.i <= Len(dm.tickers)
    /\ \E o \in Outcomes :
        LET out == loop_body(dm, rawDir, clock, o[1], o[2])
            ticker == dm.tickers[dm.i]
            attempt == [ticker |-> ticker, resp |-> o[1], disk |-> o[2], now |-> clock]
        IN /\ rawDir' = out.dir
           /\ written' = IF out.wrote
                         THEN written \cup
                                  {[path |-> out.st.saved_paths[Len(out.st.saved_paths)],
                                    ticker |-> ticker, version |-> dm.version, now |-> clock,
                                    csv |-> to_csv(out.st.all_data[Len(out.st.all_data)])]}
                         ELSE written
           /\ IF out.escaped
              THEN /\ dm' = [pc |-> "idle"]
                   /\ ret' = [op |-> "download_many", raised |-> TRUE]
              ELSE /\ dm' = [out.st EXCEPT !.attempts = Append(@, attempt)]
                   /\ ret' = ret
    /\ UNCHANGED <<raw, res1, res2, cpc, clock, procDir, archived>>

\* return all_data, failed, saved_paths
DownloadManyReturn ==
    /\ dm.pc = "loop"
    /\ dm.i > Len(dm.tickers)
    /\ ret' = [op |-> "download_many", raised |-> FALSE, tickers |-> dm.tickers,
               version |-> dm.version, all_data |-> dm.all_data, failed |-> dm.failed,
               saved_paths |-> dm.saved_paths, attempts |-> dm.attempts]
    /\ dm' = [pc |-> "idle"]
    /\ UNCHANGED <<raw, res1, res2, cpc, clock, rawDir, written, procDir, archived>>

NextRaw == Tick \/ DownloadManyCall \/ DownloadManyLoop \/ DownloadManyReturn

SpecRaw == InitRaw /\ [][NextRaw]_vars

-----------------------------------------------------------------------------
(* SpecLocate: snapshots are saved into raw_dir and the readers are called. *)

\* Every order a file system may list the names of S in.
RECURSIVE Listings(_)
Listings(S) ==
    IF S = {} THEN {<<>>}
    ELSE UNION {{<<f>> \o q : q \in Listings(S \ {f})} : f \in S}

\* The names of S from the greatest down: a listing order in which a reader
\* that took the last match without sorting would get the oldest file.
Descending(S) ==
    CHOOSE q \in Listings(S) : \A i \in 1..(Len(q) - 1) : StrLess(q[i + 1], q[i])

\* The table the provider has for a ticker.
TableOf(ticker) == [kind |-> "table", k |-> IF ticker = tSPY THEN 1 ELSE 2]

\* save_snapshot(download_stock_data(ticker, ...), raw_dir, ticker, version)
SaveSnapshot ==
    /\ Cardinality(written) < MaxWrites
    /\ \E ticker \in Tickers, version \in Versions :
        LET df == download_stock_data(ticker, TableOf(ticker)).val
            saved == save_snapshot(rawDir, df, ticker, version, clock, "ok")
        IN /\ rawDir' = saved.dir
           /\ written' = written \cup {[path |-> saved.val, ticker |-> ticker,
                                         version |-> version, now |-> clock,
                                         csv |-> to_csv(df)]}
           /\ ret' = Idle
    /\ UNCHANGED <<raw, res1, res2, cpc, clock, dm, procDir, archived>>

\* latest_snapshot_for_ticker(raw_dir, ticker, version), the directory being
\* listed in any order.
LatestSnapshot ==
    /\ ret = Idle
    /\ \E ticker \in Tickers, version \in Versions, listing \in Listings(DOMAIN rawDir) :
        ret' = [op |-> "latest_snapshot_for_ticker", ticker |-> ticker, version |-> version,
                res |-> latest_snapshot_for_ticker(listing, ticker, version)]
    /\ UNCHANGED <<raw, res1, res2, cpc, clock, rawDir, written, dm, procDir, archived>>

\* load_and_clean_latest_raw(raw_dir, tickers, version)
LoadAndClean ==
    /\ ret = Idle
    /\ \E tickers \in TickerSeqs, version \in Versions :
        ret' = [op |-> "load_and_clean_latest_raw", tickers |-> tickers, version |-> version,
                res |-> load_and_clean_latest_raw(rawDir, Descending(DOMAIN rawDir),
                                                  tickers, version)]
    /\ UNCHANGED <<raw, res1, res2, cpc, clock, rawDir, written, dm, procDir, archived>>

\* The caller goes on after a reader has returned.
Resume ==
    /\ ret # Idle
    /\ ret' = Idle
    /\ UNCHANGED <<raw, res1, res2, cpc, clock, rawDir, written, dm, procDir, archived>>

NextLocate == Tick \/ SaveSnapshot \/ LatestSnapshot \/ LoadAndClean \/ Resume

SpecLocate == InitRaw /\ [][NextLocate]_vars

-----------------------------------------------------------------------------
(* data_processing.py: save_clean_prices and load_clean_prices_latest. *)

sCleanPrices == <<"c", "l", "e", "a", "n", "_", "p", "r", "i", "c", "e", "s", "_">>
sLatest == <<"l", "a", "t", "e", "s", "t">>

archived_name(version, now) == sCleanPrices \o version \o <<"_">> \o make_timestamp(now) \o sCsv
latest_name(version) == sCleanPrices \o version \o <<"_">> \o sLatest \o sCsv

\* save_clean_prices: [val = (archived_path, latest_path), dir = processed_dir
\* afterwards]: the dataset is written to both paths.
save_clean_prices(dir, clean_df, version, now) ==
    [val |-> <<archived_name(version, now), latest_name(version)>>,
     dir |-> WriteFile(WriteFile(dir, archived_name(version, now), to_csv(clean_df)),
                       latest_name(version), to_csv(clean_df))]

\* load_clean_prices_latest: pd.read_csv(path, parse_dates=["Date"])
load_clean_prices_latest(dir, version) ==
    IF latest_name(version) \notin DOMAIN dir THEN Raise("FileNotFoundError")
    ELSE Return(read_csv(dir[latest_name(version)], {cDate}))

-----------------------------------------------------------------------------
(* SpecProc: clean datasets are saved to processed_dir and read back. *)

tNA == <<"N", "A">>

\* The datasets handed to save_clean_prices: cleaned downloads of SPY, of
\* TSLA and of NA (Nano Labs), and a cleaned table with missing values.
CleanDatasets ==
    {clean_prices(download_stock_data(tSPY, [kind |-> "table", k |-> 1]).val).val,
     clean_prices(download_stock_data(tTSLA, [kind |-> "table", k |-> 2]).val).val,
     clean_prices(download_stock_data(tNA, [kind |-> "table", k |-> 1]).val).val,
     clean_prices([columns |-> h_no_adj,
                   rows |-> <<RawRow(h_no_adj, Ts(20240102), Str(tSPY), Str(<<"n", "o", "n", "e">>)),
                              RawRow(h_no_adj, Ts(20240103), Str(tSPY), Num(12))>>]).val}

ProcVersions == {DEFAULT_VERSION}

\* save_clean_prices(clean_df, processed_dir, version) is called.
SaveCleanPrices ==
    /\ Cardinality(archived.calls) < MaxWrites
    /\ \E clean_df \in CleanDatasets, version \in ProcVersions :
        LET saved == save_clean_prices(procDir, clean_df, version, clock)
            call == [path |-> saved.val[1], now |-> clock, df |-> clean_df]
        IN /\ procDir' = saved.dir
           /\ archived' = [calls |-> archived.calls \cup {call}, last |-> call]
           /\ ret' = [op |-> "save_clean_prices", version |-> version, df |-> clean_df,
                      res |-> saved.val]
    /\ UNCHANGED <<raw, res1, res2, cpc, clock, rawDir, written, dm>>

\* load_clean_prices_latest(processed_dir, version) is called.
LoadCleanPricesLatest ==
    /\ ret.op # "load_clean_prices_latest"
    /\ \E version \in ProcVersions :
        ret' = [op |-> "load_clean_prices_latest", version |-> version,
                res |-> load_clean_prices_latest(procDir, version)]
    /\ UNCHANGED <<raw, res1, res2, cpc, clock, rawDir, written, dm, procDir, archived>>

NextProc == Tick \/ SaveCleanPrices \/ LoadCleanPricesLatest \/ Resume

SpecProc == InitRaw /\ [][NextProc]_vars

-----------------------------------------------------------------------------
(* Properties of clean_prices (SpecClean). *)

RowKeys(df) == [r \in 1..Len(df.rows) |-> KeyOf(df, df.rows[r])]
UniqueKeys(df) == \A i, j \in 1..Len(df.rows) : i # j => RowKeys(df)[i] # RowKeys(df)[j]
SortedByKey(df) == \A i, j \in 1..Len(df.rows) : i < j => ~KeyLess(RowKeys(df)[j], RowKeys(df)[i])
HasTickerAndDate(df) ==
    HasColumn(normalise_columns(df), cTicker) /\ HasColumn(normalise_columns(df), cDate)

C7_CleanIdempotent ==
    cpc = "recleaned" => (res2.ok /\ res2.val = res1.val)

\* The first pass dropped a duplicate (a date as text and the same date as a
\* Timestamp) and the second pass has run on the result.
C7_Witness ==
    /\ cpc = "recleaned"
    /\ Len(raw.rows) = 2
    /\ raw.rows[1] # raw.rows[2]
    /\ Len(res1.val.rows) = 1

\* C8: when the raw table has no Adj_Close column (after normalisation) but
\* has a Close column, every output row has Adj_Close equal to Close, also
\* where Close failed numeric coercion and is missing.
C8_AdjCloseFallsBackToClose ==
    (/\ cpc # "start" /\ res1.ok
     /\ ~HasColumn(normalise_columns(raw), cAdj_Close)
     /\ HasColumn(normalise_columns(raw), cClose)) =>
        \A r \in 1..Len(res1.val.rows) :
            res1.val.rows[r][IndexOf(REQUIRED_COLUMNS, cAdj_Close)]
                = res1.val.rows[r][IndexOf(REQUIRED_COLUMNS, cClose)]

\* A table without Adj_Close: one output row has Close = Adj_Close = 12, the
\* other has both missing.
C8_Witness ==
    /\ cpc = "cleaned" /\ res1.ok
    /\ raw.columns = h_no_adj
    /\ Len(res1.val.rows) = 2
    /\ res1.val.rows[1][5] = Num(12) /\ res1.val.rows[1][6] = Num(12)
    /\ res1.val.rows[2][5] = NA /\ res1.val.rows[2][6] = NA

-----------------------------------------------------------------------------
(* Properties of download_many (SpecRaw). *)

AttemptFails(a) == a.resp.kind # "table" \/ a.disk = "full"
MessageOf(a) ==
    IF a.resp.kind = "empty" THEN msgNoData \o a.ticker
    ELSE IF a.resp.kind = "error" THEN msgProvider
    ELSE msgDisk
FailedAttempts(attempts) == SelectSeq(attempts, AttemptFails)
GoodAttempts(attempts) == SelectSeq(attempts, LAMBDA a : ~AttemptFails(a))

\* C2: download_many attempts every ticker in input order and lets no
\* per-ticker failure escape: a ticker whose fetch or save fails gives exactly
\* one entry "{ticker}: {error message}" in the failures and no table and no
\* path; a ticker that succeeds gives exactly one table and one path and no
\* failure entry; the three lists keep input order, tables and paths aligned.
C2_DownloadManyCollects ==
    ret.op = "download_many" =>
        /\ ~ret.raised
        /\ Len(ret.attempts) = Len(ret.tickers)
        /\ \A i \in 1..Len(ret.tickers) : ret.attempts[i].ticker = ret.tickers[i]
        /\ Len(ret.failed) = Len(FailedAttempts(ret.attempts))
        /\ \A j \in 1..Len(ret.failed) :
            LET a == FailedAttempts(ret.attempts)[j]
            IN ret.failed[j] = a.ticker \o <<":", " ">> \o MessageOf(a)
        /\ Len(ret.all_data) = Len(GoodAttempts(ret.attempts))
        /\ Len(ret.saved_paths) = Len(GoodAttempts(ret.attempts))
        /\ \A j \in 1..Len(ret.all_data) :
            LET a == GoodAttempts(ret.attempts)[j]
            IN /\ ret.all_data[j].columns = Append(yf_table(a.resp.k).columns, cTicker)
               /\ \A r \in 1..Len(ret.all_data[j].rows) :
                    ret.all_data[j].rows[r] = Append(yf_table(a.resp.k).rows[r], Str(a.ticker))
               /\ Len(ret.all_data[j].rows) = Len(yf_table(a.resp.k).rows)
               /\ ret.saved_paths[j]
                    = a.ticker \o sRaw \o ret.version \o <<"_">> \o make_timestamp(a.now) \o sCsv

\* download_many(["SPY", "TSLA"]) where SPY succeeds and the save of TSLA
\* fails: one table, one path, one failure entry, which names TSLA.
C2_Witness ==
    /\ ret.op = "download_many"
    /\ ret.tickers = <<tSPY, tTSLA>>
    /\ Len(ret.all_data) = 1 /\ Len(ret.saved_paths) = 1 /\ Len(ret.failed) = 1
    /\ ret.failed[1] = tTSLA \o <<":", " ">> \o msgDisk

\* C5: a raw snapshot is immutable once written: every save_snapshot call
\* creates a new file, and no later operation (a later save_snapshot for the
\* same ticker and version included) changes, overwrites or deletes a
\* snapshot that exists: every file ever written still holds the content it
\* was written with.
C5_SnapshotsImmutable ==
    \A w \in written : w.path \in DOMAIN rawDir /\ rawDir[w.path] = w.csv

\* What does hold of snapshots: one written under a name that no other write
\* used keeps its content, and nothing is ever deleted.
SnapshotsKeptUnlessNameReused ==
    \A w \in written :
        /\ w.path \in DOMAIN rawDir
        /\ (\A u \in written : u.path = w.path => u = w) => rawDir[w.path] = w.csv

-----------------------------------------------------------------------------
(* Properties of the readers of raw_dir (SpecLocate). *)

SnapshotsOf(ticker, version) == {w \in written : w.ticker = ticker /\ w.version = version}
PatternOf(ticker, version) == ticker \o sRaw \o version \o <<"_">> \o sStar \o sCsv

\* C3: when raw_dir holds several snapshots of one ticker and version with
\* distinct timestamps, latest_snapshot_for_ticker returns the one with the
\* greatest timestamp, whatever order the directory is listed in.
C3_LatestIsGreatestTimestamp ==
    (/\ ret.op = "latest_snapshot_for_ticker"
     /\ Cardinality(SnapshotsOf(ret.ticker, ret.version)) >= 2
     /\ \A u, w \in SnapshotsOf(ret.ticker, ret.version) : u # w => u.now # w.now) =>
        /\ ret.res.ok
        /\ \E w \in SnapshotsOf(ret.ticker, ret.version) :
            /\ w.path = ret.res.val
            /\ \A u \in SnapshotsOf(ret.ticker, ret.version) : u.now <= w.now

\* What does hold: the newest snapshot is returned when every file the
\* pattern matches is a snapshot of the requested ticker and version.
LatestIsGreatestWhenGlobExact ==
    (/\ ret.op = "latest_snapshot_for_ticker"
     /\ SnapshotsOf(ret.ticker, ret.version) # {}
     /\ \A f \in DOMAIN rawDir :
            fnmatch(f, PatternOf(ret.ticker, ret.version))
                => \E w \in SnapshotsOf(ret.ticker, ret.version) : w.path = f) =>
        /\ ret.res.ok
        /\ \E w \in SnapshotsOf(ret.ticker, ret.version) :
            /\ w.path = ret.res.val
            /\ \A u \in SnapshotsOf(ret.ticker, ret.version) : u.now <= w.now

\* C10: the path latest_snapshot_for_ticker(raw_dir, ticker, version) returns
\* is a file written by a save_snapshot call with exactly that ticker and
\* exactly that version.
C10_LatestIsOfRequestedVersion ==
    (ret.op = "latest_snapshot_for_ticker" /\ ret.res.ok) =>
        \E w \in written :
            w.path = ret.res.val /\ w.ticker = ret.ticker /\ w.version = ret.version

\* C9, as claimed: the dataset load_and_clean_latest_raw returns has, as a
\* whole, no two rows with the same (Ticker, Date) and its rows ascend by
\* (Ticker, Date).
C9_WholeDatasetSorted ==
    (ret.op = "load_and_clean_latest_raw" /\ ret.res.ok) =>
        UniqueKeys(ret.res.val) /\ SortedByKey(ret.res.val)

RECURSIVE RowsOf(_)
RowsOf(frames) == IF frames = <<>> THEN <<>> ELSE Head(frames).rows \o RowsOf(Tail(frames))

\* C9, amended: the dataset is one block per distinct requested ticker, the
\* blocks in the order the tickers first occur in the request; each block is
\* the cleaned latest snapshot of its ticker, with no two rows sharing a
\* (Ticker, Date) pair and rows ascending by (Ticker, Date).
C9_BlocksSortedInRequestOrder ==
    (ret.op = "load_and_clean_latest_raw" /\ ret.res.ok) =>
        /\ Len(ret.res.frames) = Len(dict_keys(ret.tickers))
        /\ Len(ret.res.file_map) = Len(dict_keys(ret.tickers))
        /\ \A i \in 1..Len(ret.res.frames) :
            /\ ret.res.file_map[i][1] = dict_keys(ret.tickers)[i]
            /\ ret.res.frames[i].columns = REQUIRED_COLUMNS
            /\ \A r \in 1..Len(ret.res.frames[i].rows) :
                ret.res.frames[i].rows[r][8] = Str(dict_keys(ret.tickers)[i])
            /\ UniqueKeys(ret.res.frames[i])
            /\ SortedByKey(ret.res.frames[i])
        /\ ret.res.val.columns = REQUIRED_COLUMNS
        /\ ret.res.val.rows = RowsOf(ret.res.frames)

\* TSLA then SPY requested, both present: TSLA's block (three raw rows, one a
\* repeated date) comes first, then SPY's.
C9_Witness ==
    /\ ret.op = "load_and_clean_latest_raw" /\ ret.res.ok
    /\ ret.tickers = <<tTSLA, tSPY>>
    /\ Len(ret.res.val.rows) = 4
    /\ ret.res.val.rows[1][8] = Str(tTSLA)
    /\ ret.res.val.rows[3][8] = Str(tSPY)

-----------------------------------------------------------------------------
(* Properties of the processed files (SpecProc). *)

\* C4: across any sequence of save_clean_prices calls on one processed_dir
\* and version, the archival file a call wrote is never overwritten by a
\* later call (every call's archive keeps the dataset it was written with),
\* while the latest file is overwritten by every call.
C4_ArchiveNeverOverwritten ==
    /\ \A c \in archived.calls : c.path \in DOMAIN procDir /\ procDir[c.path] = to_csv(c.df)
    /\ ret.op = "save_clean_prices" => procDir[ret.res[2]] = to_csv(ret.df)

\* What does hold: the latest file always holds the dataset of the last
\* call, and an archive whose name no other call used keeps its dataset.
LatestOverwrittenArchiveKeptUnlessNameReused ==
    /\ archived.last # NoSave => procDir[latest_name(DEFAULT_VERSION)] = to_csv(archived.last.df)
    /\ \A c \in archived.calls :
        /\ c.path \in DOMAIN procDir
        /\ (\A d \in archived.calls : d.path = c.path => d = c) => procDir[c.path] = to_csv(c.df)

\* C6: after any sequence of save_clean_prices calls, load_clean_prices_latest
\* returns a dataset with the same rows and values as the dataset of the most
\* recent call, and that call's archival file has the content of the latest
\* file.
C6_LoadReturnsLastSaved ==
    (ret.op = "load_clean_prices_latest" /\ archived.last # NoSave) =>
        /\ ret.res.ok
        /\ ret.res.val = archived.last.df
        /\ procDir[archived.last.path] = procDir[latest_name(ret.version)]

\* What does hold: the round trip returns the dataset saved wherever no
\* Ticker is text that read_csv takes for a missing value, and the last
\* call's archive always equals the latest file.
LoadReturnsLastSavedUnlessTickerReadsAsMissing ==
    (ret.op = "load_clean_prices_latest" /\ archived.last # NoSave) =>
        /\ ret.res.ok
        /\ procDir[archived.last.path] = procDir[latest_name(ret.version)]
        /\ (\A r \in 1..Len(archived.last.df.rows) :
                archived.last.df.rows[r][8].s \notin NaValues \ {<<>>})
            => ret.res.val = archived.last.df

=============================================================================
